---------------------------- MODULE Spec2Model ----------------------------
(***************************************************************************)
(* Model of structuralcodes/code/mc2010/_concrete_shear.py: the shear      *)
(* formulas of fib Model Code 2010 and their dispatchers.                  *)
(*                                                                         *)
(* Numbers.  Every Python number (int or float) is one fixed-point integer *)
(* counting thousandths: 1.5 is 1500, the selector 3 is 3000, an angle of  *)
(* 90 degrees is 90000.  One representation for all of them keeps a value  *)
(* meaningful when a call binds it to a parameter of another name.         *)
(*                                                                         *)
(* Outcomes.  A call ends in one of three ways: it returns a number, it    *)
(* returns None (the body falls off its end), or it raises.  A raise       *)
(* carries the exception type and the traceback, outermost frame first.    *)
(***************************************************************************)
EXTENDS Integers, Sequences, FiniteSets, TLC

N(k) == k * 1000

Abs(x) == IF x < 0 THEN -x ELSE x

Max2(a, b) == IF a >= b THEN a ELSE b

Min2(a, b) == IF a <= b THEN a ELSE b

(* the largest factor that keeps a product with small in machine range     *)
Lim(small) == 2000000000 \div Max2(Abs(small), 1)

(* float product of big and small, Abs(big) >= Abs(small); big is          *)
(* pre-rounded when the exact integer product would leave machine range    *)
MulBy(big, small) ==
    IF Abs(big) <= Lim(small) THEN (big * small) \div 1000
    ELSE IF Abs(big) \div 10 <= Lim(small) THEN ((big \div 10) * small) \div 100
    ELSE IF Abs(big) \div 100 <= Lim(small) THEN ((big \div 100) * small) \div 10
    ELSE (big \div 1000) * small

(* float product a * b                                                     *)
Mul(a, b) == IF Abs(a) >= Abs(b) THEN MulBy(a, b) ELSE MulBy(b, a)

(* float quotient a / b for b # 0 (the callers raise ZeroDivisionError     *)
(* before they get here)                                                   *)
Div(a, b) ==
    IF Abs(a) <= 2000000 THEN (a * 1000) \div b
    ELSE IF Abs(a) <= 20000000 /\ Abs(b) >= 10 THEN (a * 100) \div (b \div 10)
    ELSE IF Abs(a) <= 200000000 /\ Abs(b) >= 100 THEN (a * 10) \div (b \div 100)
    ELSE IF Abs(b) >= 1000 THEN a \div (b \div 1000)
    ELSE (a \div b) * 1000

RECURSIVE RootSearch(_, _, _, _)
(* largest r in lo..hi with r^e <= x, by bisection (e is 2 or 3)           *)
RootSearch(e, x, lo, hi) ==
    IF lo >= hi THEN lo
    ELSE IF (IF e = 2 THEN ((lo + hi + 1) \div 2) * ((lo + hi + 1) \div 2)
             ELSE ((lo + hi + 1) \div 2) * ((lo + hi + 1) \div 2)
                  * ((lo + hi + 1) \div 2)) <= x
    THEN RootSearch(e, x, (lo + hi + 1) \div 2, hi)
    ELSE RootSearch(e, x, lo, ((lo + hi + 1) \div 2) - 1)

(* x ** 0.5 for x >= 0                                                     *)
Sqrt(x) ==
    IF x <= 2000000 THEN RootSearch(2, x * 1000, 0, 46000)
    ELSE RootSearch(2, x \div 1000, 0, 46000) * 1000

(* x ** (1 / 3) for x >= 0                                                 *)
Cbrt(x) ==
    IF x <= 2000 THEN RootSearch(3, x * 1000000, 0, 1280)
    ELSE IF x <= 2000000 THEN RootSearch(3, x * 1000, 0, 1280) * 10
    ELSE RootSearch(3, x, 0, 1280) * 100

(* Bhaskara's rational approximation of the sine, p = x * (180 - x)        *)
Bhaskara(p) == Div(4 * p, 40500000 - p)

(* sin of an angle of 0..180 degrees (within 0.2% of math.sin)             *)
SinHalfTurn(x) == Bhaskara(Mul(x, 180000 - x))

(* sin(x*pi/180)                                                           *)
SinDeg(x) ==
    IF x % 360000 <= 180000 THEN SinHalfTurn(x % 360000)
    ELSE -SinHalfTurn((x % 360000) - 180000)

(* cos(x*pi/180)                                                           *)
CosDeg(x) == SinDeg(x + 90000)

(* math.tan(x*pi/180) is 0.0 exactly when x is 0; at 90 degrees it is a    *)
(* huge finite float, so that 1/tan is 0 to every digit kept here.         *)
TanIsZero(x) == x = 0

(* cos / sin of one angle                                                  *)
CosOverSin(c, s) ==
    IF s = 0 THEN (IF c < 0 THEN -2000000000 ELSE 2000000000)
    ELSE Div(c, s)

(* 1 / tan(x*pi/180) for an angle whose tan is not 0                       *)
OneOverTan(x) == CosOverSin(CosDeg(x), SinDeg(x))

(***************************************************************************)
(* Outcomes of a call                                                      *)
(***************************************************************************)
Val(v) == [kind |-> "value", val |-> v, exc |-> "", tb |-> <<>>]

NoneResult == [kind |-> "none", val |-> 0, exc |-> "", tb |-> <<>>]

(* exception exc raised by a statement of function f                       *)
Raise(exc, f) == [kind |-> "raise", val |-> 0, exc |-> exc, tb |-> <<f>>]

(* outcome r of a callee as seen by the caller f: a value or None is       *)
(* handed on, an exception propagates with f's frame added                 *)
Via(f, r) == IF r.kind = "raise" THEN [r EXCEPT !.tb = <<f>> \o @] ELSE r

(* Python truth value of a number                                          *)
Truthy(x) == x # 0

(* default values of the signatures                                        *)
gamma_c_default == 1500

v_rds_alpha_default == 1571

v_rd_max_alfa_default == 0

(***************************************************************************)
(* epsilon_x: 1/(2*E*As) is evaluated first, then the tuple                *)
(* (abs(Med)/z + abs(Ved) + abs(Ned)*((1/2) + (delta_e/z)), 0), then the   *)
(* product float * tuple, which Python rejects with TypeError, so max()    *)
(* is never reached.                                                       *)
(***************************************************************************)
epsilon_x(E, As, Med, Ved, Ned, z, delta_e) ==
    IF E = 0 \/ As = 0 THEN Raise("ZeroDivisionError", "epsilon_x")
    ELSE IF z = 0 THEN Raise("ZeroDivisionError", "epsilon_x")
    ELSE Raise("TypeError", "epsilon_x")

(* fsqr without the cap at 8                                               *)
fsqr_uncapped(fck, f) ==
    IF fck < 0 THEN Raise("TypeError", f)
    ELSE Val(Sqrt(fck))

(* fsqr = min(fck**0.5, 8); a negative fck gives a complex power, which    *)
(* min() cannot order                                                      *)
fsqr(fck, f) ==
    IF fck < 0 THEN Raise("TypeError", f)
    ELSE Val(Min2(Sqrt(fck), N(8)))

(* nfc = min((30 / fck) ** (1 / 3), 1)                                     *)
nfc(fck, f) ==
    IF fck = 0 THEN Raise("ZeroDivisionError", f)
    ELSE IF fck < 0 THEN Raise("TypeError", f)
    ELSE Val(Min2(Cbrt(Div(N(30), fck)), N(1)))

(* (ct + ca) / (1 + ct ** 2) for ct = 1/tan(theta), ca = 1/tan(alfa)       *)
ratio_of(ct, ca) == Div(ct + ca, N(1) + Mul(ct, ct))

(* ((1/tan(theta)) + (1/tan(alfa))) / (1 + (1/tan(theta)) ** 2)            *)
ratio(theta, alfa, f) ==
    IF TanIsZero(theta) \/ TanIsZero(alfa) THEN Raise("ZeroDivisionError", f)
    ELSE Val(ratio_of(OneOverTan(theta), OneOverTan(alfa)))

(* (kv * fsqr * z * bw) / gamma_c                                          *)
kv_result(kv, fs, z, bw, gamma_c) ==
    Val(Div(Mul(Mul(Mul(kv, fs), z), bw), gamma_c))

(* v_rdc_approx1 once fsqr (fs) and the divisor 1000 + 1.25 * z (den) are  *)
(* evaluated                                                               *)
v_rdc_approx1_body(fs, den, z, bw, gamma_c) ==
    IF fs.kind = "raise" THEN fs
    ELSE IF den = 0 THEN Raise("ZeroDivisionError", "v_rdc_approx1")
    ELSE IF gamma_c = 0 THEN Raise("ZeroDivisionError", "v_rdc_approx1")
    ELSE kv_result(Div(N(180), den), fs.val, z, bw, gamma_c)

v_rdc_approx1(fck, z, bw, gamma_c) == v_rdc_approx1_body(fsqr(fck, "v_rdc_approx1"), N(1000) + Mul(1250, z), z, bw, gamma_c)

(* kv and the return of v_rdc_approx2, d1 = 1 + 1500 * epsilon_x(...),     *)
(* d2 = 1000 + kdg * z                                                     *)
v_rdc_approx2_kv(fs, d1, d2, z, bw, gamma_c) ==
    IF d1 = 0 \/ d2 = 0 \/ gamma_c = 0
    THEN Raise("ZeroDivisionError", "v_rdc_approx2")
    ELSE kv_result(Mul(Div(400, d1), Div(N(1300), d2)), fs, z, bw, gamma_c)

(* v_rdc_approx2 once fsqr (fs) is evaluated, e the outcome of epsilon_x   *)
v_rdc_approx2_body(fs, e, z, bw, dg, gamma_c) ==
    IF fs.kind = "raise" THEN fs
    ELSE IF N(16) + dg = 0 THEN Raise("ZeroDivisionError", "v_rdc_approx2")
    ELSE IF e.kind = "raise" THEN Via("v_rdc_approx2", e)
    ELSE v_rdc_approx2_kv(fs.val, N(1) + Mul(N(1500), e.val),
                          N(1000) + Mul(Max2(Div(N(32), N(16) + dg), 750), z),
                          z, bw, gamma_c)

v_rdc_approx2(fck, z, bw, dg, E, As, Med, Ved, Ned, delta_e, gamma_c) == v_rdc_approx2_body(fsqr(fck, "v_rdc_approx2"), epsilon_x(E, As, Med, Ved, Ned, z, delta_e), z, bw, dg, gamma_c)

v_rds_warnings(theta) ==
    IF N(45) < theta /\ theta < N(20)
    THEN {"Too high or too low compression field angel"}
    ELSE {}

v_rds(asw, sw, z, fywd, theta, alpha) ==
    IF sw = 0 THEN Raise("ZeroDivisionError", "v_rds")
    ELSE IF TanIsZero(theta) \/ TanIsZero(alpha)
    THEN Raise("ZeroDivisionError", "v_rds")
    ELSE Val(Mul(Mul(Mul(Mul(Div(asw, sw), z), fywd),
                     OneOverTan(theta) + OneOverTan(alpha)),
                 SinDeg(alpha)))

(* v_rd_max_approx1 once nfc (n) and the angle ratio (r) are evaluated     *)
v_rd_max_approx1_body(n, r, fck, bw, z, gamma_c) ==
    IF n.kind = "raise" THEN n
    ELSE IF gamma_c = 0 THEN Raise("ZeroDivisionError", "v_rd_max_approx1")
    ELSE IF r.kind = "raise" THEN r
    ELSE Val(Mul(Mul(Mul(Mul(Mul(550, n.val), Div(fck, gamma_c)), bw), z),
                 r.val))

v_rd_max_approx1(fck, bw, theta, z, alfa, gamma_c) == v_rd_max_approx1_body(nfc(fck, "v_rd_max_approx1"), ratio(theta, alfa, "v_rd_max_approx1"), fck, bw, z, gamma_c)

(* k_epsilon = 1 / (1.2 + 55 * epsilon_1), den the divisor                 *)
k_epsilon_of(den, f) ==
    IF den = 0 THEN Raise("ZeroDivisionError", f) ELSE Val(Div(N(1), den))

(* epsilon_1 and k_epsilon of approx2 and approx3, for a strain ex that    *)
(* epsilon_x returned                                                      *)
k_epsilon(ex, theta, f) ==
    IF TanIsZero(theta) THEN Raise("ZeroDivisionError", f)
    ELSE k_epsilon_of(1200 + Mul(N(55),
                                 ex + Mul(ex + 2, Mul(OneOverTan(theta),
                                                      OneOverTan(theta)))),
                      f)

(* 'if k_epsilon > 0.65:' runs min(0.65), a TypeError (min of one float);  *)
(* in the other case the body ends without a return statement              *)
v_rd_max_approx2_clamp(k) ==
    IF k.kind = "raise" THEN k
    ELSE IF k.val > 650 THEN Raise("TypeError", "v_rd_max_approx2")
    ELSE NoneResult

(* v_rd_max_approx2 once nfc (n) is evaluated, e the outcome of epsilon_x  *)
v_rd_max_approx2_body(n, e, theta) ==
    IF n.kind = "raise" THEN n
    ELSE IF e.kind = "raise" THEN Via("v_rd_max_approx2", e)
    ELSE v_rd_max_approx2_clamp(k_epsilon(e.val, theta, "v_rd_max_approx2"))

v_rd_max_approx2(fck, bw, theta, z, E, As, Med, Ved, Ned, delta_e, alfa, gamma_c) == v_rd_max_approx2_body(nfc(fck, "v_rd_max_approx2"), epsilon_x(E, As, Med, Ved, Ned, z, delta_e), theta)

(* after k_epsilon, theta_min = 20 + 10000 * epsilon_x multiplies an int   *)
(* by the function object: TypeError                                       *)
v_rd_max_approx3_theta_min(k) ==
    IF k.kind = "raise" THEN k
    ELSE Raise("TypeError", "v_rd_max_approx3")

(* v_rd_max_approx3 once nfc (n) is evaluated, e the outcome of epsilon_x  *)
v_rd_max_approx3_body(n, e, theta) ==
    IF n.kind = "raise" THEN n
    ELSE IF e.kind = "raise" THEN Via("v_rd_max_approx3", e)
    ELSE v_rd_max_approx3_theta_min(
             k_epsilon(e.val, theta, "v_rd_max_approx3"))

v_rd_max_approx3(fck, bw, theta, z, E, As, Med, Ved, Ned, delta_e, alfa, gamma_c) == v_rd_max_approx3_body(nfc(fck, "v_rd_max_approx3"), epsilon_x(E, As, Med, Ved, Ned, z, delta_e), theta)

v_rd_max(approx_lvl_s, fck, bw, theta, z, E, As, Med, Ved, Ned, delta_e, alfa, gamma_c) ==
    IF approx_lvl_s = N(1)
    THEN Via("v_rd_max", v_rd_max_approx1(fck, bw, theta, z, alfa, gamma_c))
    ELSE IF approx_lvl_s = N(2)
    THEN Via("v_rd_max", v_rd_max_approx2(fck, bw, theta, z, E, As, Med, Ved,
                                          Ned, delta_e, alfa, gamma_c))
    ELSE IF approx_lvl_s = N(3)
    THEN Via("v_rd_max", v_rd_max_approx3(fck, bw, theta, z, E, As, Med, Ved,
                                          Ned, delta_e, alfa, gamma_c))
    ELSE NoneResult

(* kv of v_rds_approx3: d1 = 1 + 1500 * epsilon_x(...), vmax the outcome   *)
(* of the v_rd_max call.  The factor (1 - Ved / vmax, 0) is a tuple, so    *)
(* the product with the float before it is a TypeError.                    *)
v_rds_approx3_kv(d1, vmax) ==
    IF d1 = 0 THEN Raise("ZeroDivisionError", "v_rds_approx3")
    ELSE IF vmax.kind = "raise" THEN Via("v_rds_approx3", vmax)
    ELSE IF vmax.kind = "none" THEN Raise("TypeError", "v_rds_approx3")
    ELSE IF vmax.val = 0 THEN Raise("ZeroDivisionError", "v_rds_approx3")
    ELSE Raise("TypeError", "v_rds_approx3")

(* v_rds_approx3 once fsqr (fs) is evaluated, e the outcome of epsilon_x.  *)
(* v_rd_max is called with twelve positional arguments, one short: fck     *)
(* lands in approx_lvl_s, every later argument one parameter early         *)
(* (theta_min = 20 + 10000 * epsilon_x(...) in bw), and gamma_c takes its  *)
(* default.                                                                *)
v_rds_approx3_body(fs, e, fck, z, bw, E, As, Med, Ved, Ned, delta_e, alfa, gamma_c) ==
    IF fs.kind = "raise" THEN fs
    ELSE IF e.kind = "raise" THEN Via("v_rds_approx3", e)
    ELSE v_rds_approx3_kv(
             N(1) + Mul(N(1500), e.val),
             v_rd_max(fck, bw, N(20) + Mul(N(10000), e.val), z, E, As, Med,
                      Ved, Ned, delta_e, alfa, gamma_c, gamma_c_default))

v_rds_approx3(fck, z, bw, E, As, Med, Ved, Ned, delta_e, alfa, gamma_c) == v_rds_approx3_body(fsqr(fck, "v_rds_approx3"), epsilon_x(E, As, Med, Ved, Ned, z, delta_e), fck, z, bw, E, As, Med, Ved, Ned, delta_e, alfa, gamma_c)

(* v_rdc with level 1 handing dg to v_rdc_approx1 in the place of bw       *)
v_rdc_dg_for_bw(approx_lvl_c, approx_lvl_s, fck, z, bw, dg, E, As, Med, Ved, Ned, delta_e, alfa, gamma_c) ==
    IF approx_lvl_c = N(1)
    THEN Via("v_rdc", v_rdc_approx1(fck, z, dg, gamma_c))
    ELSE IF approx_lvl_c = N(2)
    THEN Via("v_rdc", v_rdc_approx2(fck, z, bw, dg, E, As, Med, Ved, Ned,
                                    delta_e, gamma_c))
    ELSE IF approx_lvl_s = N(3)
    THEN Via("v_rdc", v_rds_approx3(fck, z, bw, E, As, Med, Ved, Ned, delta_e,
                                    alfa, gamma_c))
    ELSE NoneResult

v_rdc(approx_lvl_c, approx_lvl_s, fck, z, bw, dg, E, As, Med, Ved, Ned, delta_e, alfa, gamma_c) ==
    IF approx_lvl_c = N(1)
    THEN Via("v_rdc", v_rdc_approx1(fck, z, bw, gamma_c))
    ELSE IF approx_lvl_c = N(2)
    THEN Via("v_rdc", v_rdc_approx2(fck, z, bw, dg, E, As, Med, Ved, Ned,
                                    delta_e, gamma_c))
    ELSE IF approx_lvl_s = N(3)
    THEN Via("v_rdc", v_rds_approx3(fck, z, bw, E, As, Med, Ved, Ned, delta_e,
                                    alfa, gamma_c))
    ELSE NoneResult

(* a + b of two outcomes already known not to raise, in function f         *)
Plus(a, b, f) ==
    IF a.kind = "none" \/ b.kind = "none" THEN Raise("TypeError", f)
    ELSE Val(a.val + b.val)

(* min(a, b) of two outcomes already known not to raise, in function f     *)
MinOf(a, b, f) ==
    IF a.kind = "none" \/ b.kind = "none" THEN Raise("TypeError", f)
    ELSE Val(Min2(a.val, b.val))

(* min(a, m) in function f, a an outcome computed in f (an exception in it *)
(* carries f's frame already), m the outcome of a call: a's exception      *)
(* comes first, then m's                                                   *)
Capped(a, m, f) ==
    IF a.kind = "raise" THEN a
    ELSE IF m.kind = "raise" THEN Via(f, m)
    ELSE MinOf(a, m, f)

(* c + s in function f, c and s the outcomes of two calls: c is evaluated  *)
(* first, then s, then the sum                                             *)
Summed(c, s, f) ==
    IF c.kind = "raise" THEN Via(f, c)
    ELSE IF s.kind = "raise" THEN Via(f, s)
    ELSE Plus(c, s, f)

(* 'approx_lvl_c == 1 or 2' is the number 2 when the comparison fails      *)
v_rd_warnings(approx_lvl_c) ==
    IF ~((approx_lvl_c = N(1)) \/ Truthy(N(2)))
    THEN {"Not a valid approximation level"}
    ELSE {}

(* the branches of v_rd, c, s and m the outcomes of its calls of v_rdc,    *)
(* v_rds and v_rd_max (only those the branch taken evaluates are read).    *)
(* The last test reads '(reinforcment and approx_lvl_s == 1) or 2'.        *)
v_rd_body(approx_lvl_s, reinforcment, c, s, m) ==
    IF ~reinforcment THEN Via("v_rd", c)
    ELSE IF reinforcment /\ approx_lvl_s = N(3)
    THEN Capped(Summed(c, s, "v_rd"), m, "v_rd")
    ELSE IF (reinforcment /\ approx_lvl_s = N(1)) \/ Truthy(N(2))
    THEN Capped(Via("v_rd", s), m, "v_rd")
    ELSE NoneResult

(* Both calls of v_rdc pass thirteen positional arguments, one short of    *)
(* the signature: approx_lvl_s is missing, so fck lands in approx_lvl_s,   *)
(* every later argument one parameter early, and gamma_c takes its         *)
(* default.                                                                *)
v_rd(approx_lvl_c, approx_lvl_s, reinforcment, fck, z, bw, dg, E, As, Med, Ved, Ned, delta_e, alfa, gamma_c, asw, sw, fywd, theta) ==
    v_rd_body(approx_lvl_s, reinforcment,
              v_rdc(approx_lvl_c, fck, z, bw, dg, E, As, Med, Ved, Ned,
                    delta_e, alfa, gamma_c, gamma_c_default),
              v_rds(asw, sw, z, fywd, theta, alfa),
              v_rd_max(approx_lvl_s, fck, bw, theta, z, E, As, Med, Ved, Ned,
                       delta_e, alfa, gamma_c))

(* v_rd reaches its v_rds call: always in the last branch, and in the      *)
(* branch of approx_lvl_s == 3 when the v_rdc call before it returned      *)
v_rd_reaches_v_rds(approx_lvl_s, reinforcment, c) ==
    /\ reinforcment
    /\ approx_lvl_s = N(3) => c.kind # "raise"

(* warnings a call of v_rd emits, its own and those of the v_rds call it   *)
(* reaches                                                                 *)
v_rd_all_warnings(approx_lvl_c, approx_lvl_s, reinforcment, fck, z, bw, dg, E, As, Med, Ved, Ned, delta_e, alfa, gamma_c, theta) ==
    v_rd_warnings(approx_lvl_c) \cup
    (IF v_rd_reaches_v_rds(approx_lvl_s, reinforcment,
                           v_rdc(approx_lvl_c, fck, z, bw, dg, E, As, Med,
                                 Ved, Ned, delta_e, alfa, gamma_c,
                                 gamma_c_default))
     THEN v_rds_warnings(theta)
     ELSE {})

(***************************************************************************)
(* The calls.  A caller holds one tuple of arguments (args) and applies    *)
(* the functions of the module to it, one call after another; each         *)
(* parameter receives the argument of its own name.  The functions that    *)
(* declare a default for the stirrup inclination may be called without it  *)
(* (omitted).                                                              *)
(***************************************************************************)
MaxLvl == 3

LvlValues == {N(k) : k \in 0..MaxLvl}

FckValues == {35000, 81000}

ZValues == {0, 180000}

EValues == {0, 200000}

MedValues == {0, 1000000}

AlfaValues == {45000, 90000}

ThetaValues == {40000, 50000}

ArgSpace ==
    [approx_lvl_c : LvlValues, approx_lvl_s : LvlValues,
     reinforcment : BOOLEAN, fck : FckValues, z : ZValues, bw : {20000},
     dg : {16000}, E : EValues, As : {20000}, Med : MedValues,
     Ved : {2000000}, Ned : {500000}, delta_e : {20000}, alfa : AlfaValues,
     gamma_c : {1500}, asw : {50000}, sw : {200000}, fywd : {434000},
     theta : ThetaValues]

VARIABLES
    args,      \* the argument tuple the caller holds
    op,        \* name of the function called last, "idle" before any call
    omitted,   \* TRUE when the last call left out the stirrup inclination
    result,    \* outcome of the last call
    warned,    \* warnings the last call emitted
    first      \* history: the first call of the session and what it gave

vars == <<args, op, omitted, result, warned, first>>

(* history of a session: no call made yet / history not kept               *)
NoCall(o) ==
    [op |-> o, omitted |-> FALSE, result |-> NoneResult, warned |-> {},
     between |-> FALSE]

Init ==
    /\ args \in ArgSpace
    /\ op = "idle"
    /\ omitted = FALSE
    /\ result = NoneResult
    /\ warned = {}
    /\ first = NoCall("off")

(* the history after a call f: the first call is recorded with its outcome *)
(* and warnings, and between says whether a different call followed it     *)
Remember(f, om, r, w) ==
    IF first.op = "off" THEN first
    ELSE IF first.op = "idle"
    THEN [op |-> f, omitted |-> om, result |-> r, warned |-> w,
          between |-> FALSE]
    ELSE IF f # first.op \/ om # first.omitted
    THEN [first EXCEPT !.between = TRUE]
    ELSE first

(* a session in which only the first call computes: later calls return     *)
(* None                                                                    *)
Done_first_only(f, om, r, w) ==
    /\ op' = f
    /\ omitted' = om
    /\ result' = IF op = "idle" THEN r ELSE NoneResult
    /\ warned' = w
    /\ first' = Remember(f, om, result', w)
    /\ UNCHANGED args

Done(f, om, r, w) ==
    /\ op' = f
    /\ omitted' = om
    /\ result' = r
    /\ warned' = w
    /\ first' = Remember(f, om, result', w)
    /\ UNCHANGED args

Call_epsilon_x ==
    Done("epsilon_x", FALSE,
         epsilon_x(args.E, args.As, args.Med, args.Ved, args.Ned, args.z,
                   args.delta_e), {})

Call_v_rd ==
    Done("v_rd", FALSE,
         v_rd(args.approx_lvl_c, args.approx_lvl_s, args.reinforcment,
              args.fck, args.z, args.bw, args.dg, args.E, args.As, args.Med,
              args.Ved, args.Ned, args.delta_e, args.alfa, args.gamma_c,
              args.asw, args.sw, args.fywd, args.theta),
         v_rd_all_warnings(args.approx_lvl_c, args.approx_lvl_s,
                           args.reinforcment, args.fck, args.z, args.bw,
                           args.dg, args.E, args.As, args.Med, args.Ved,
                           args.Ned, args.delta_e, args.alfa, args.gamma_c,
                           args.theta))

Call_v_rdc ==
    Done("v_rdc", FALSE,
         v_rdc(args.approx_lvl_c, args.approx_lvl_s, args.fck, args.z,
               args.bw, args.dg, args.E, args.As, args.Med, args.Ved,
               args.Ned, args.delta_e, args.alfa, args.gamma_c), {})

Call_v_rdc_approx1 ==
    Done("v_rdc_approx1", FALSE,
         v_rdc_approx1(args.fck, args.z, args.bw, args.gamma_c), {})

Call_v_rdc_approx2 ==
    Done("v_rdc_approx2", FALSE,
         v_rdc_approx2(args.fck, args.z, args.bw, args.dg, args.E, args.As,
                       args.Med, args.Ved, args.Ned, args.delta_e,
                       args.gamma_c), {})

Call_v_rds_approx3 ==
    Done("v_rds_approx3", FALSE,
         v_rds_approx3(args.fck, args.z, args.bw, args.E, args.As, args.Med,
                       args.Ved, args.Ned, args.delta_e, args.alfa,
                       args.gamma_c), {})

Call_v_rds ==
    \E om \in BOOLEAN :
        Done("v_rds", om,
             v_rds(args.asw, args.sw, args.z, args.fywd, args.theta,
                   IF om THEN v_rds_alpha_default ELSE args.alfa),
             v_rds_warnings(args.theta))

Call_v_rd_max ==
    \E om \in BOOLEAN :
        Done("v_rd_max", om,
             v_rd_max(args.approx_lvl_s, args.fck, args.bw, args.theta,
                      args.z, args.E, args.As, args.Med, args.Ved, args.Ned,
                      args.delta_e,
                      IF om THEN v_rd_max_alfa_default ELSE args.alfa,
                      args.gamma_c), {})

Call_v_rd_max_approx1 ==
    \E om \in BOOLEAN :
        Done("v_rd_max_approx1", om,
             v_rd_max_approx1(args.fck, args.bw, args.theta, args.z,
                              IF om THEN v_rd_max_alfa_default ELSE args.alfa,
                              args.gamma_c), {})

Call_v_rd_max_approx2 ==
    \E om \in BOOLEAN :
        Done("v_rd_max_approx2", om,
             v_rd_max_approx2(args.fck, args.bw, args.theta, args.z, args.E,
                              args.As, args.Med, args.Ved, args.Ned,
                              args.delta_e,
                              IF om THEN v_rd_max_alfa_default ELSE args.alfa,
                              args.gamma_c), {})

Call_v_rd_max_approx3 ==
    \E om \in BOOLEAN :
        Done("v_rd_max_approx3", om,
             v_rd_max_approx3(args.fck, args.bw, args.theta, args.z, args.E,
                              args.As, args.Med, args.Ved, args.Ned,
                              args.delta_e,
                              IF om THEN v_rd_max_alfa_default ELSE args.alfa,
                              args.gamma_c), {})

Next ==
    \/ Call_epsilon_x
    \/ Call_v_rd
    \/ Call_v_rdc
    \/ Call_v_rdc_approx1
    \/ Call_v_rdc_approx2
    \/ Call_v_rds_approx3
    \/ Call_v_rds
    \/ Call_v_rd_max
    \/ Call_v_rd_max_approx1
    \/ Call_v_rd_max_approx2
    \/ Call_v_rd_max_approx3

Spec == Init /\ [][Next]_vars

(* sessions whose history is kept, on the arguments of one cross-section   *)
RepeatArgSpace ==
    {a \in ArgSpace : /\ a.fck = 35000 /\ a.z = 180000 /\ a.Med = 0
                      /\ a.alfa = 90000 /\ a.theta = 40000}

InitRepeat ==
    /\ args \in RepeatArgSpace
    /\ op = "idle"
    /\ omitted = FALSE
    /\ result = NoneResult
    /\ warned = {}
    /\ first = NoCall("idle")

SpecRepeat == InitRepeat /\ [][Next]_vars

TypeOK ==
    /\ args \in ArgSpace
    /\ op \in {"idle", "epsilon_x", "v_rd", "v_rdc", "v_rdc_approx1",
               "v_rdc_approx2", "v_rds_approx3", "v_rds", "v_rd_max",
               "v_rd_max_approx1", "v_rd_max_approx2", "v_rd_max_approx3"}
    /\ omitted \in BOOLEAN
    /\ result.kind \in {"value", "none", "raise"}
    /\ first.between \in BOOLEAN

(***************************************************************************)
(* Properties                                                              *)
(***************************************************************************)

(* two outcomes agree: both return the same number, both return None, or   *)
(* both raise the same exception                                           *)
Agrees(r, q) == r.kind = q.kind /\ r.val = q.val /\ r.exc = q.exc

(* no divisor of any formula is zero and no root is taken of a negative    *)
ValidArgs ==
    /\ args.fck > 0 /\ args.gamma_c > 0
    /\ args.z # 0 /\ args.E # 0 /\ args.As # 0 /\ args.sw # 0
    /\ args.theta # 0 /\ args.alfa # 0

(* v_rdc, v_rds and v_rd_max on the caller's arguments, each parameter     *)
(* bound to the argument of its name                                       *)
SameNamed_v_rdc ==
    v_rdc(args.approx_lvl_c, args.approx_lvl_s, args.fck, args.z, args.bw,
          args.dg, args.E, args.As, args.Med, args.Ved, args.Ned,
          args.delta_e, args.alfa, args.gamma_c)

SameNamed_v_rds ==
    v_rds(args.asw, args.sw, args.z, args.fywd, args.theta, args.alfa)

SameNamed_v_rd_max ==
    v_rd_max(args.approx_lvl_s, args.fck, args.bw, args.theta, args.z, args.E,
             args.As, args.Med, args.Ved, args.Ned, args.delta_e, args.alfa,
             args.gamma_c)

(* C1: v_rd called with reinforcment=False returns exactly what v_rdc      *)
(* returns when every v_rdc parameter receives v_rd's argument of the same *)
(* name.                                                                   *)
C1_UnreinforcedIsVRdc ==
    (op = "v_rd" /\ ~args.reinforcment) => Agrees(result, SameNamed_v_rdc)

(* C2: with reinforcment=True and approx_lvl_s in {1,2}, v_rd returns      *)
(* min(v_rds(...), v_rd_max(...)), a number that never exceeds the value   *)
(* of v_rd_max for the same arguments.                                     *)
C2_SteelCappedByVRdMax ==
    (/\ op = "v_rd" /\ args.reinforcment
     /\ args.approx_lvl_s \in {N(1), N(2)} /\ ValidArgs)
    => /\ result.kind = "value"
       /\ SameNamed_v_rds.kind = "value"
       /\ SameNamed_v_rd_max.kind = "value"
       /\ result.val = Min2(SameNamed_v_rds.val, SameNamed_v_rd_max.val)
       /\ result.val <= SameNamed_v_rd_max.val

(* C3: with reinforcment=True and approx_lvl_s = 3, v_rd returns           *)
(* min(v_rdc(...) + v_rds(...), v_rd_max(3, ...)), every parameter bound   *)
(* to v_rd's argument of the same name.                                    *)
C3_ConcretePlusSteelCapped ==
    (/\ op = "v_rd" /\ args.reinforcment
     /\ args.approx_lvl_s = N(3) /\ args.approx_lvl_c \in {N(1), N(2)}
     /\ ValidArgs)
    => /\ result.kind = "value"
       /\ SameNamed_v_rdc.kind = "value"
       /\ SameNamed_v_rds.kind = "value"
       /\ SameNamed_v_rd_max.kind = "value"
       /\ result.val = Min2(SameNamed_v_rdc.val + SameNamed_v_rds.val,
                            SameNamed_v_rd_max.val)

(* the number C4 states:                                                   *)
(* max((|Med|/z + |Ved| + |Ned|*(1/2 + delta_e/z)) / (2*E*As), 0)          *)
StrainFormula(E, As, Med, Ved, Ned, z, delta_e) ==
    Max2(Div(Div(Abs(Med), z) + Abs(Ved)
             + Mul(Abs(Ned), 500 + Div(delta_e, z)),
             Mul(Mul(N(2), E), As)),
         0)

(* C4: for z # 0 and E*As # 0, epsilon_x returns the number                *)
(* max((1/(2*E*As)) * (|Med|/z + |Ved| + |Ned|*(1/2 + delta_e/z)), 0),     *)
(* which is >= 0.                                                          *)
C4_StrainIsFlooredFormula ==
    (op = "epsilon_x" /\ args.z # 0 /\ args.E # 0 /\ args.As # 0)
    => /\ result.kind = "value"
       /\ result.val = StrainFormula(args.E, args.As, args.Med, args.Ved,
                                     args.Ned, args.z, args.delta_e)
       /\ result.val >= 0

(* the approximation the level names, on the caller's arguments            *)
LevelOf_v_rd_max ==
    IF args.approx_lvl_s = N(1)
    THEN v_rd_max_approx1(args.fck, args.bw, args.theta, args.z, args.alfa,
                          args.gamma_c)
    ELSE IF args.approx_lvl_s = N(2)
    THEN v_rd_max_approx2(args.fck, args.bw, args.theta, args.z, args.E,
                          args.As, args.Med, args.Ved, args.Ned, args.delta_e,
                          args.alfa, args.gamma_c)
    ELSE v_rd_max_approx3(args.fck, args.bw, args.theta, args.z, args.E,
                          args.As, args.Med, args.Ved, args.Ned, args.delta_e,
                          args.alfa, args.gamma_c)

(* C5: v_rd_max returns the result of v_rd_max_approx1, _approx2 or        *)
(* _approx3 for approx_lvl_s = 1, 2 or 3, and for each of the three levels *)
(* that result is a number.                                                *)
C5_VRdMaxDispatchGivesNumber ==
    (/\ op = "v_rd_max" /\ ~omitted
     /\ args.approx_lvl_s \in {N(1), N(2), N(3)} /\ ValidArgs)
    => /\ Agrees(result, LevelOf_v_rd_max)
       /\ result.kind = "value"

(* C6: v_rdc returns v_rdc_approx1(fck, z, bw, gamma_c) when               *)
(* approx_lvl_c = 1, v_rdc_approx2(fck, z, bw, dg, E, As, Med, Ved, Ned,   *)
(* delta_e, gamma_c) when approx_lvl_c = 2, and otherwise                  *)
(* v_rds_approx3(fck, z, bw, E, As, Med, Ved, Ned, delta_e, alfa, gamma_c) *)
(* when approx_lvl_s = 3; approx_lvl_c in {1,2} decides the branch         *)
(* whatever approx_lvl_s is.  In each case a number is returned.           *)
C6_VRdcReturnsSelectedLevel ==
    (op = "v_rdc" /\ ValidArgs) =>
      /\ args.approx_lvl_c = N(1) =>
           /\ result.kind = "value"
           /\ Agrees(result, v_rdc_approx1(args.fck, args.z, args.bw,
                                           args.gamma_c))
      /\ args.approx_lvl_c = N(2) =>
           /\ result.kind = "value"
           /\ Agrees(result,
                     v_rdc_approx2(args.fck, args.z, args.bw, args.dg, args.E,
                                   args.As, args.Med, args.Ved, args.Ned,
                                   args.delta_e, args.gamma_c))
      /\ (args.approx_lvl_c \notin {N(1), N(2)} /\ args.approx_lvl_s = N(3)) =>
           /\ result.kind = "value"
           /\ Agrees(result,
                     v_rds_approx3(args.fck, args.z, args.bw, args.E, args.As,
                                   args.Med, args.Ved, args.Ned, args.delta_e,
                                   args.alfa, args.gamma_c))

(* a selector outside its enumeration                                      *)
InvalidSelectorCall ==
    \/ op = "v_rd_max" /\ args.approx_lvl_s \notin {N(1), N(2), N(3)}
    \/ /\ op = "v_rdc"
       /\ args.approx_lvl_c \notin {N(1), N(2)} /\ args.approx_lvl_s # N(3)
    \/ /\ op = "v_rd"
       /\ \/ args.approx_lvl_c \notin {N(1), N(2)}
          \/ args.approx_lvl_s \notin {N(1), N(2), N(3)}

(* C7: a call of v_rd_max, v_rdc or v_rd with an invalid selector ends in  *)
(* a raised error; it never returns None to the caller.                    *)
C7_InvalidSelectorRaises ==
    InvalidSelectorCall => result.kind = "raise"

(* the arguments C8 lets vary, each with the value 0 among its values      *)
OtherArgs ==
    [approx_lvl_s : LvlValues, dg : {0, 16000}, E : {0} \cup EValues,
     As : {0, 20000}, Med : {0} \cup MedValues, Ved : {0, 2000000},
     Ned : {0, 500000}, delta_e : {0, 20000}, alfa : {0} \cup AlfaValues]

(* C8: with approx_lvl_c = 1 (and fck >= 0, gamma_c # 0, z # -800) v_rdc   *)
(* returns a number, and returns that same number for every other choice   *)
(* of approx_lvl_s, dg, E, As, Med, Ved, Ned, delta_e and alfa, the value  *)
(* 0 included; v_rdc_approx1 returns a number too, the one v_rdc returns   *)
(* at level 1 for the same fck, z, bw and gamma_c.                         *)
C8_Level1DependsOnFourArgs ==
    /\ (/\ op = "v_rdc" /\ args.approx_lvl_c = N(1)
        /\ args.fck >= 0 /\ args.gamma_c # 0 /\ args.z # -800000)
       => /\ result.kind = "value"
          /\ \A o \in OtherArgs :
               v_rdc(N(1), o.approx_lvl_s, args.fck, args.z, args.bw, o.dg,
                     o.E, o.As, o.Med, o.Ved, o.Ned, o.delta_e, o.alfa,
                     args.gamma_c)
               = result
    /\ (/\ op = "v_rdc_approx1"
        /\ args.fck >= 0 /\ args.gamma_c # 0 /\ args.z # -800000)
       => /\ result.kind = "value"
          /\ result = v_rdc(N(1), args.approx_lvl_s, args.fck, args.z,
                            args.bw, args.dg, args.E, args.As, args.Med,
                            args.Ved, args.Ned, args.delta_e, args.alfa,
                            args.gamma_c)

(* C8 witness: v_rdc at level 1 returned a positive number although E = 0, *)
(* where the strain formula divides by zero.                               *)
C8_Witness ==
    /\ op = "v_rdc" /\ args.approx_lvl_c = N(1)
    /\ args.E = 0 /\ args.z # 0
    /\ result.kind = "value" /\ result.val > 0

(* the last call repeated with the stirrup inclination 90 passed           *)
WithNinety ==
    IF op = "v_rds"
    THEN v_rds(args.asw, args.sw, args.z, args.fywd, args.theta, N(90))
    ELSE IF op = "v_rd_max"
    THEN v_rd_max(args.approx_lvl_s, args.fck, args.bw, args.theta, args.z,
                  args.E, args.As, args.Med, args.Ved, args.Ned, args.delta_e,
                  N(90), args.gamma_c)
    ELSE IF op = "v_rd_max_approx1"
    THEN v_rd_max_approx1(args.fck, args.bw, args.theta, args.z, N(90),
                          args.gamma_c)
    ELSE IF op = "v_rd_max_approx2"
    THEN v_rd_max_approx2(args.fck, args.bw, args.theta, args.z, args.E,
                          args.As, args.Med, args.Ved, args.Ned, args.delta_e,
                          N(90), args.gamma_c)
    ELSE v_rd_max_approx3(args.fck, args.bw, args.theta, args.z, args.E,
                          args.As, args.Med, args.Ved, args.Ned, args.delta_e,
                          N(90), args.gamma_c)

(* C10: a call of v_rds, v_rd_max, v_rd_max_approx1, _approx2 or _approx3  *)
(* that omits the stirrup inclination does not raise and gives the result  *)
(* of the same call with 90 passed.                                        *)
C10_DefaultInclinationIsNinety ==
    (/\ omitted
     /\ op \in {"v_rds", "v_rd_max", "v_rd_max_approx1", "v_rd_max_approx2",
                "v_rd_max_approx3"}
     /\ ValidArgs)
    => /\ result.kind # "raise"
       /\ Agrees(result, WithNinety)

(* the steel contribution of the formula sheet:                            *)
(* (asw/sw) * z * fywd * (cot(theta) + cot(alpha)) * sin(alpha)            *)
SteelFormula(asw, sw, z, fywd, theta, alpha) ==
    Mul(Mul(Mul(Mul(Div(asw, sw), z), fywd),
            OneOverTan(theta) + OneOverTan(alpha)),
        SinDeg(alpha))

(* C11: v_rds called with theta < 20 or theta > 45 emits the warning and   *)
(* still returns (asw/sw)*z*fywd*(cot(theta)+cot(alpha))*sin(alpha);       *)
(* called with theta in [20,45] it emits no warning.                       *)
C11_ThetaOutsideRangeWarns ==
    (op = "v_rds" /\ ~omitted /\ ValidArgs)
    => /\ result.kind = "value"
       /\ result.val = SteelFormula(args.asw, args.sw, args.z, args.fywd,
                                    args.theta, args.alfa)
       /\ (args.theta < N(20) \/ args.theta > N(45))
          <=> "Too high or too low compression field angel" \in warned

(* C12: v_rd called with approx_lvl_c not in {1,2} emits the warning "Not  *)
(* a valid approximation level"; called with approx_lvl_c in {1,2} it      *)
(* emits no such warning.                                                  *)
C12_InvalidConcreteLevelWarns ==
    op = "v_rd"
    => (args.approx_lvl_c \notin {N(1), N(2)}
        <=> "Not a valid approximation level" \in warned)

(* the level 1 resistance of the formula sheet:                            *)
(* (180/(1000 + 1.25*z)) * min(sqrt(fck), 8) * z * bw / gamma_c            *)
ConcreteFormula1(fck, z, bw, gamma_c) ==
    Div(Mul(Mul(Mul(Div(N(180), N(1000) + Mul(1250, z)),
                    Min2(Sqrt(fck), N(8))),
                z),
            bw),
        gamma_c)

(* strengths at and above the cap, fck >= 64                               *)
CappedFck == {64000, 81000, 100000}

(* C13: v_rdc_approx1(fck, z, bw, gamma_c) returns                         *)
(* (180/(1000 + 1.25*z)) * min(sqrt(fck), 8) * z * bw / gamma_c (for       *)
(* fck >= 0, gamma_c # 0, z # -800), and for fck >= 64 it returns what it  *)
(* returns for every other fck >= 64.                                      *)
C13_Level1FormulaWithStrengthCap ==
    (/\ op = "v_rdc_approx1"
     /\ args.fck >= 0 /\ args.gamma_c # 0 /\ args.z # -800000)
    => /\ result.kind = "value"
       /\ result.val = ConcreteFormula1(args.fck, args.z, args.bw,
                                        args.gamma_c)
       /\ args.fck >= N(64) =>
            \A f \in CappedFck :
                v_rdc_approx1(f, args.z, args.bw, args.gamma_c) = result

(* C13 witness: v_rdc_approx1 returned a positive number for a strength    *)
(* whose square root is above 8.                                           *)
C13_Witness ==
    /\ op = "v_rdc_approx1"
    /\ Sqrt(args.fck) > N(8)
    /\ result.kind = "value" /\ result.val > 0

PrincipalStrain(ex, theta) ==
    ex + Mul(ex + 2, Mul(OneOverTan(theta), OneOverTan(theta)))

(* k_epsilon = min(1 / (1.2 + 55 * epsilon_1), 0.65)                       *)
StrengthReduction(ex, theta) ==
    Min2(Div(N(1), 1200 + Mul(N(55), PrincipalStrain(ex, theta))), 650)

(* theta_min = 20 + 10000 * ex                                             *)
RefinedAngle(ex) == N(20) + Mul(N(10000), ex)

(* k * nfc * (fck/gamma_c) * bw * z * ratio, the ratio                     *)
(* (cot(angle) + cot(alfa)) / (1 + cot(angle)^2) taken at angle            *)
CapacityFormula(k, fck, bw, z, angle, alfa, gamma_c) ==
    Mul(Mul(Mul(Mul(Mul(k, Min2(Cbrt(Div(N(30), fck)), N(1))),
                    Div(fck, gamma_c)),
                bw),
            z),
        ratio_of(OneOverTan(angle), OneOverTan(alfa)))

(* the strain C4 states, on the caller's arguments                         *)
ClaimedStrain ==
    StrainFormula(args.E, args.As, args.Med, args.Ved, args.Ned, args.z,
                  args.delta_e)

(* C15: for valid input v_rd_max_approx2 returns the number                *)
(* k * nfc * (fck/gamma_c) * bw * z * ratio with                           *)
(* k = min(1/(1.2 + 55*epsilon_1), 0.65), whether the computed k_epsilon   *)
(* is above 0.65 or not.                                                   *)
C15_ClampedCapacityReturned ==
    (op = "v_rd_max_approx2" /\ ~omitted /\ ValidArgs)
    => /\ result.kind = "value"
       /\ result.val
          = CapacityFormula(StrengthReduction(ClaimedStrain, args.theta),
                            args.fck, args.bw, args.z, args.theta, args.alfa,
                            args.gamma_c)

(* the level 3 capacity C16 states: k_epsilon at the supplied theta, the   *)
(* ratio at theta_min = 20 + 10000 * epsilon_x(...)                        *)
ClaimedCapacity3 ==
    CapacityFormula(StrengthReduction(ClaimedStrain, args.theta), args.fck,
                    args.bw, args.z, RefinedAngle(ClaimedStrain), args.alfa,
                    args.gamma_c)

(* C16: v_rd_max_approx3 returns the capacity whose ratio                  *)
(* (cot(theta_min)+cot(alfa))/(1+cot(theta_min)^2) is taken at             *)
(* theta_min = 20 + 10000 * epsilon_x(E, As, Med, Ved, Ned, z, delta_e),   *)
(* epsilon_x evaluated on the call's arguments, not at the supplied theta. *)
C16_RatioAtRefinedAngle ==
    (op = "v_rd_max_approx3" /\ ~omitted /\ ValidArgs)
    => /\ result.kind = "value"
       /\ result.val = ClaimedCapacity3

(* kv = max((0.4/(1+1500*ex)) * (1 - Ved / vmax), 0)                       *)
ReducedKv(ex, Ved, vmax) ==
    Max2(Mul(Div(400, N(1) + Mul(N(1500), ex)), N(1) - Div(Ved, vmax)), 0)

(* C17: v_rds_approx3 returns kv * fsqr * z * bw / gamma_c with            *)
(* kv = max((0.4/(1+1500*epsilon_x(...))) * (1 - Ved / Vmax), 0), Vmax the *)
(* capacity at theta_min for the call's own arguments; the result is never *)
(* negative and is 0 whenever Ved >= Vmax.                                 *)
C17_ConcreteShareFlooredAtZero ==
    (op = "v_rds_approx3" /\ ValidArgs /\ ClaimedCapacity3 # 0)
    => /\ result.kind = "value"
       /\ result.val
          = Div(Mul(Mul(Mul(ReducedKv(ClaimedStrain, args.Ved,
                                      ClaimedCapacity3),
                            Min2(Sqrt(args.fck), N(8))),
                        args.z),
                    args.bw),
                args.gamma_c)
       /\ result.val >= 0
       /\ args.Ved >= ClaimedCapacity3 => result.val = 0
=============================================================================
